---- MODULE Spec2Model ----
(***************************************************************************)
(* Model of notebooks/en/rag_zephyr_langchain.ipynb: a RAG pipeline built  *)
(* from library calls.  Two specifications share the variables:            *)
(*   SpecChunk  the Chunker  (CharacterTextSplitter.split_documents)       *)
(*   Spec       the Vector Index, the retrievers and rag_chain.invoke      *)
(* Texts are sequences of one-character strings.                           *)
(***************************************************************************)
EXTENDS Integers, Sequences, FiniteSets, TLC

VARIABLES
    docs,           \* the loaded Documents: a sequence of texts
    chunk_size,     \* CharacterTextSplitter(chunk_size=...)
    chunk_overlap,  \* CharacterTextSplitter(chunk_overlap=...)
    chunked_docs,   \* result of splitter.split_documents(docs)
    cpc,            \* position in the chunking cell: None | "loaded" | "split"
    embeddings,     \* embed_documents(chunked_docs): one vector per Segment, in order
    db,             \* FAISS.from_documents(...): None | IndexError | the index
    retriever,      \* the retriever bound to the name `retriever`
    spc,            \* position in the set-up cells
    apc,            \* position inside rag_chain.invoke
    question,       \* argument of rag_chain.invoke
    ctx_branch,     \* RunnableParallel branch "context": start | embedded | done
    q_branch,       \* RunnableParallel branch "question": start | done
    qvec,           \* embedding of the question inside the retriever
    hits,           \* what the retriever's search returned: (segment, distance)
    passed,         \* output of RunnablePassthrough
    prompt,         \* input of the Generator: {context, question}
    generated,      \* completion produced by the Generator
    answer,         \* value returned by rag_chain.invoke
    stages,         \* the stages started in this invocation, in order
    ncalls,         \* completed invocations, counted up to MaxCalls
    raised          \* the step whose exception reached the caller, if any

chunkVars == <<docs, chunk_size, chunk_overlap, chunked_docs, cpc>>

buildVars == <<embeddings, db, retriever, spc>>

callVars == <<apc, question, ctx_branch, q_branch, qvec, hits, passed, prompt,
              generated, answer, stages, ncalls>>

vars == <<chunkVars, buildVars, callVars, raised>>

----------------------------------------------------------------------------
(* Bounds of the model *)

MaxLen == 6
MaxChunk == 7
ScenarioLen == 1000
MaxSegs == 5
MaxCalls == 2

(* Constants of the notebook *)

ChunkSize == 512
ChunkOverlap == 30
RetrieverK == 4
DoSample == TRUE

Alphabet == {"a", " ", "\n"}
Whitespace == {" ", "\n"}

Min(S) == CHOOSE x \in S : \A y \in S : x <= y
Max(S) == CHOOSE x \in S : \A y \in S : x >= y

----------------------------------------------------------------------------
(* The Chunker: CharacterTextSplitter with its default separator "\n\n",   *)
(* keep_separator=False, strip_whitespace=True, length_function=len.       *)

Separator == <<"\n", "\n">>

StartsWithAt(text, i, sep) ==
    /\ i + Len(sep) - 1 <= Len(text)
    /\ \A j \in 1..Len(sep) : text[i + j - 1] = sep[j]

\* re.split(separator, text): leftmost non-overlapping matches, empty pieces kept
RECURSIVE ReSplit(_, _, _)
ReSplit(text, sep, i) ==
    LET found == {j \in i..(Len(text) - Len(sep) + 1) : StartsWithAt(text, j, sep)}
    IN  IF found = {}
        THEN <<SubSeq(text, i, Len(text))>>
        ELSE LET j == Min(found)
             IN  <<SubSeq(text, i, j - 1)>> \o ReSplit(text, sep, j + Len(sep))

\* _split_text_with_regex: the pieces of re.split that are not ""
SplitTextWithRegex(text, sep) ==
    SelectSeq(ReSplit(text, sep, 1), LAMBDA s : s # <<>>)

\* separator.join(docs)
RECURSIVE Join(_, _)
Join(pieces, sep) ==
    IF pieces = <<>> THEN <<>>
    ELSE IF Len(pieces) = 1 THEN pieces[1]
    ELSE pieces[1] \o sep \o Join(Tail(pieces), sep)

\* a strip that leaves the text as it is
StripIdentity(s) == s

\* str.strip()

Strip(s) ==
    LET keep == {i \in 1..Len(s) : s[i] \notin Whitespace}
    IN  IF keep = {} THEN <<>> ELSE SubSeq(s, Min(keep), Max(keep))

\* _join_docs: the joined, stripped text; "" stands for None
JoinDocs(pieces, sep) == Strip(Join(pieces, sep))

\* the condition of the inner while loop of _merge_splits
PopCond(total, len, n, m, o, sepLen) ==
    \/ total > o
    \/ (total + len + (IF n > 0 THEN sepLen ELSE 0) > m /\ total > 0)

\* the inner while loop of _merge_splits: drop pieces from the front
RECURSIVE PopLoop(_, _, _, _, _, _)
PopLoop(cur, total, len, m, o, sepLen) ==
    IF PopCond(total, len, Len(cur), m, o, sepLen)
    THEN PopLoop(Tail(cur),
                 total - (Len(cur[1]) + (IF Len(cur) > 1 THEN sepLen ELSE 0)),
                 len, m, o, sepLen)
    ELSE [cur |-> cur, total |-> total]

\* the for loop of _merge_splits, from piece i on
RECURSIVE MergeLoop(_, _, _, _, _, _, _, _)
MergeLoop(splits, i, out, cur, total, m, o, sep) ==
    IF i > Len(splits)
    THEN LET last == JoinDocs(cur, sep)
         IN  IF last # <<>> THEN Append(out, last) ELSE out
    ELSE LET d == splits[i]
             len == Len(d)
             sepLen == Len(sep)
             over == total + len + (IF Len(cur) > 0 THEN sepLen ELSE 0) > m
             flush == over /\ Len(cur) > 0
             joined == JoinDocs(cur, sep)
             out2 == IF flush /\ joined # <<>> THEN Append(out, joined) ELSE out
             popped == IF flush THEN PopLoop(cur, total, len, m, o, sepLen)
                       ELSE [cur |-> cur, total |-> total]
             cur2 == Append(popped.cur, d)
             total2 == popped.total + len + (IF Len(cur2) > 1 THEN sepLen ELSE 0)
         IN  MergeLoop(splits, i + 1, out2, cur2, total2, m, o, sep)

MergeSplits(splits, m, o, sep) == MergeLoop(splits, 1, <<>>, <<>>, 0, m, o, sep)

\* CharacterTextSplitter.split_text
SplitText(text, m, o) == MergeSplits(SplitTextWithRegex(text, Separator), m, o, Separator)

\* TextSplitter.split_documents: the chunks of every Document in order, each
\* carrying the index of its source Document
RECURSIVE SplitDocumentsFrom(_, _, _, _)
SplitDocumentsFrom(ds, i, m, o) ==
    IF i > Len(ds) THEN <<>>
    ELSE LET chunks == SplitText(ds[i], m, o)
         IN  [j \in 1..Len(chunks) |-> [page_content |-> chunks[j], source |-> i]]
             \o SplitDocumentsFrom(ds, i + 1, m, o)

SplitDocuments(ds, m, o) == SplitDocumentsFrom(ds, 1, m, o)

----------------------------------------------------------------------------
(* The pipeline's variables before any set-up cell has run *)

None == "None"
NoVector == <<>>
NoIndex == [state |-> None, vectors |-> <<>>, index_to_docstore_id |-> <<>>]
NoRetriever == [search_type |-> None, search_kwargs |-> <<>>]
NoPrompt == [context |-> <<>>, question |-> None]
NoText == [of |-> NoPrompt, sample |-> None]

CallIdle ==
    /\ apc = "idle"
    /\ question = None
    /\ ctx_branch = None
    /\ q_branch = None
    /\ qvec = NoVector
    /\ hits = <<>>
    /\ passed = None
    /\ prompt = NoPrompt
    /\ generated = NoText
    /\ answer = NoText
    /\ stages = <<>>
    /\ ncalls = 0

PipelineIdle ==
    /\ raised = None
    /\ embeddings = <<>>
    /\ db = NoIndex
    /\ retriever = NoRetriever
    /\ spc = "start"
    /\ CallIdle

----------------------------------------------------------------------------
(* SpecChunk: the chunking cell applied to bounded inputs *)

Texts == UNION {[1..n -> Alphabet] : n \in 0..MaxLen}

ScenarioText == [i \in 1..ScenarioLen |-> "a"]

Configs == {c \in (1..MaxChunk) \X (0..MaxChunk) : c[2] < c[1]}

InitChunk ==
    /\ PipelineIdle
    /\ cpc = "loaded"
    /\ chunked_docs = <<>>
    /\ \/ /\ docs \in {<<>>} \cup {<<t>> : t \in Texts}
          /\ \E c \in Configs : chunk_size = c[1] /\ chunk_overlap = c[2]
       \/ /\ docs = <<ScenarioText>>
          /\ chunk_size = ChunkSize
          /\ chunk_overlap = ChunkOverlap

SplitDocumentsCell ==
    /\ cpc = "loaded"
    /\ spc = "start"
    /\ chunked_docs' = SplitDocuments(docs, chunk_size, chunk_overlap)
    /\ cpc' = "split"
    /\ UNCHANGED <<docs, chunk_size, chunk_overlap, buildVars, callVars, raised>>

NextChunk == SplitDocumentsCell

SpecChunk == InitChunk /\ [][NextChunk]_vars

----------------------------------------------------------------------------
(* The Vector Index: FAISS.from_documents builds an IndexFlatL2 over the    *)
(* Segments' embeddings; Segment i of chunked_docs is stored under id i.    *)

Coords == {0, 1}
Questions == {"q0", "q1", "q2"}
Samples == {"s1", "s2"}

\* the bodies of the issues that loader.load returns
IssueTexts == {<<"a">>, <<"a", "a">>}

\* HuggingFaceEmbeddings.embed_documents: the fixed weights give each text one
\* vector of the model's dimension, the same text the same vector; the
\* stand-in for the network counts the letters of the text
EmbedText(text) ==
    <<Cardinality({i \in 1..Len(text) : text[i] = "a"}) % Cardinality(Coords)>>

EmbedDocuments(texts) == [i \in 1..Len(texts) |-> EmbedText(texts[i])]

\* squared Euclidean distance (METRIC_L2)
RECURSIVE L2SqrFrom(_, _, _)
L2SqrFrom(u, v, i) ==
    IF i > Len(u) THEN 0
    ELSE (u[i] - v[i]) * (u[i] - v[i]) + L2SqrFrom(u, v, i + 1)

L2Sqr(u, v) == L2SqrFrom(u, v, 1)

\* HuggingFaceEmbeddings.embed_query: the fixed weights give each text one vector
\* of the index's dimension; a question stands for the texts embedded like it
EmbedQuery(q) ==
    CASE q = "q0" -> <<0>>
      [] q = "q1" -> <<1>>
      [] q = "q2" -> <<2>>

\* entries i and j are at the same distance from the vector of some question
CanTie(vectors, i, j) ==
    /\ i # j
    /\ \E q \in Questions :
          L2Sqr(vectors[i], EmbedQuery(q)) = L2Sqr(vectors[j], EmbedQuery(q))

\* IndexFlatL2.search keeps its candidates in a heap compared on distance; which
\* of two entries at the same distance it lists first, and which it keeps, is
\* a matter of the heap of the installed build and of the distances of the
\* search at hand: two searches of one index need not agree. An order is the
\* set of pairs <<i, j>> where i wins over j, one ranking of the entries cut
\* down to the pairs that can tie; every ranking is possible, in every search
TieOrders(vectors) ==
    {{<<i, j>> \in (1..Len(vectors)) \X (1..Len(vectors)) :
          rank[i] < rank[j] /\ CanTie(vectors, i, j)} :
       rank \in Permutations(1..Len(vectors))}

\* FAISS.from_documents -> FAISS.__from: IndexFlatL2(len(embeddings[0])) raises
\* IndexError on an empty list; otherwise every vector is added in order
FromDocumentsEmptyOk(embs) ==
    [state |-> "ok", vectors |-> embs,
     index_to_docstore_id |-> [i \in 1..Len(embs) |-> i]]

FromDocuments(embs) ==
    IF embs = <<>>
    THEN [state |-> "IndexError", vectors |-> <<>>, index_to_docstore_id |-> <<>>]
    ELSE [state |-> "ok", vectors |-> embs,
          index_to_docstore_id |-> [i \in 1..Len(embs) |-> i]]

\* an order that lists the farthest first
ListedBeforeFarthest(vectors, q, order, i, j) ==
    LET di == L2Sqr(vectors[i], q)
        dj == L2Sqr(vectors[j], q)
    IN  \/ di > dj
        \/ di = dj /\ <<i, j>> \in order

\* entry i is listed before entry j: nearer first; FAISS leaves the order of
\* equal distances to its heap, given here by `order`
ListedBefore(vectors, q, order, i, j) ==
    LET di == L2Sqr(vectors[i], q)
        dj == L2Sqr(vectors[j], q)
    IN  \/ di < dj
        \/ di = dj /\ <<i, j>> \in order

\* the distance of a padding result: FLT_MAX = 3.4028234663852886e+38, the
\* largest float32, above every distance; the model's integers end at 2^31 - 1,
\* whose largest value stands for it
FltMax == 2147483647

\* index.search(vector, k): k (distance, label) pairs, nearest first, padded
\* with label -1 and distance FLT_MAX when the index holds fewer than k vectors
FaissSearch(vectors, q, k, order) ==
    LET n == Len(vectors)
        rank == [i \in 1..n |->
                    Cardinality({j \in 1..n : ListedBefore(vectors, q, order, j, i)})]
        at == [p \in 1..n |-> CHOOSE i \in 1..n : rank[i] = p - 1]
    IN  [p \in 1..k |->
            IF p <= n
            THEN [label |-> at[p], distance |-> L2Sqr(vectors[at[p]], q)]
            ELSE [label |-> -1, distance |-> FltMax]]

\* a docstore lookup that is off by one
SimilaritySearchShifted(index, q, k, order) ==
    LET found == SelectSeq(FaissSearch(index.vectors, q, k, order),
                           LAMBDA r : r.label # -1)
        n == Len(index.vectors)
    IN  [p \in 1..Len(found) |->
            [segment |-> index.index_to_docstore_id[(found[p].label % n) + 1],
             distance |-> found[p].distance]]

\* FAISS.similarity_search_with_score_by_vector: labels -1 are skipped and each
\* remaining label is looked up in the docstore
SimilaritySearchWithScore(index, q, k, order) ==
    LET found == SelectSeq(FaissSearch(index.vectors, q, k, order),
                           LAMBDA r : r.label # -1)
    IN  [p \in 1..Len(found) |->
            [segment |-> index.index_to_docstore_id[found[p].label],
             distance |-> found[p].distance]]

\* FAISS.similarity_search: the documents without their scores
DocsOf(scored) == [p \in 1..Len(scored) |-> scored[p].segment]

\* similarity_search(query, k=4): the k a retriever without search_kwargs uses
DefaultK == 4

\* a default that is one short
EffectiveKShort(r) ==
    IF "k" \in DOMAIN r.search_kwargs THEN r.search_kwargs.k ELSE DefaultK - 1

\* VectorStoreRetriever: k from search_kwargs, else the default of similarity_search
EffectiveK(r) == IF "k" \in DOMAIN r.search_kwargs THEN r.search_kwargs.k ELSE DefaultK

----------------------------------------------------------------------------
(* Spec: the set-up cells, then rag_chain.invoke any number of times.      *)
(* Segment i of chunked_docs is stored in the index under id i.             *)

Init ==
    /\ docs = <<>>
    /\ chunk_size = ChunkSize
    /\ chunk_overlap = ChunkOverlap
    /\ chunked_docs = <<>>
    /\ cpc = None
    /\ embeddings = <<>>
    /\ db = NoIndex
    /\ retriever = NoRetriever
    /\ spc = "load"
    /\ raised = None
    /\ CallIdle

\* docs = loader.load(): the issues are fetched
LoadCell ==
    /\ spc = "load"
    /\ docs' \in UNION {[1..n -> IssueTexts] : n \in 0..MaxSegs}
    /\ cpc' = "loaded"
    /\ spc' = "start"
    /\ UNCHANGED <<chunk_size, chunk_overlap, chunked_docs, embeddings, db,
                   retriever, callVars, raised>>

\* docs = loader.load(): a request fails (network, authentication) and
\* raise_for_status raises; nothing catches it, the cell stops
LoadCellRaises ==
    /\ spc = "load"
    /\ spc' = "failed"
    /\ raised' = "load"
    /\ UNCHANGED <<chunkVars, embeddings, db, retriever, callVars>>

\* db = FAISS.from_documents(chunked_docs, HuggingFaceEmbeddings(...)); with no
\* Segments it raises IndexError and db is not bound
FromDocumentsCell ==
    /\ spc = "start"
    /\ cpc = "split"
    /\ embeddings' = EmbedDocuments([j \in 1..Len(chunked_docs) |->
                                        chunked_docs[j].page_content])
    /\ LET built == FromDocuments(embeddings')
       IN  /\ db' = IF built.state = "ok" THEN built ELSE db
           /\ spc' = IF built.state = "ok" THEN "built" ELSE "failed"
           /\ raised' = IF built.state = "ok" THEN None ELSE "from_documents"
    /\ UNCHANGED <<chunkVars, retriever, callVars>>

\* HuggingFaceEmbeddings(...) or the embedding of the Segments raises (model
\* download, memory); db is not bound and the cell stops
FromDocumentsCellRaises ==
    /\ spc = "start"
    /\ cpc = "split"
    /\ spc' = "failed"
    /\ raised' = "embed_documents"
    /\ UNCHANGED <<chunkVars, embeddings, db, retriever, callVars>>

\* retriever = db.as_retriever(search_type="similarity", search_kwargs={'k': 4})
AsRetrieverCell ==
    /\ spc = "built"
    /\ retriever' = [search_type |-> "similarity", search_kwargs |-> [k |-> RetrieverK]]
    /\ spc' = "retriever"
    /\ UNCHANGED <<chunkVars, embeddings, db, callVars, raised>>

\* model = AutoModelForCausalLM.from_pretrained(...); tokenizer = ...
LoadModelCell ==
    /\ spc = "retriever"
    /\ spc' = "model"
    /\ UNCHANGED <<chunkVars, embeddings, db, retriever, callVars, raised>>

\* from_pretrained raises (download, memory); the cell stops
LoadModelCellRaises ==
    /\ spc = "retriever"
    /\ spc' = "failed"
    /\ raised' = "load_model"
    /\ UNCHANGED <<chunkVars, embeddings, db, retriever, callVars>>

\* text_generation_pipeline = pipeline(...); llm = HuggingFacePipeline(...);
\* llm_chain = prompt | llm | StrOutputParser()
LlmChainCell ==
    /\ spc = "model"
    /\ spc' = "chain"
    /\ UNCHANGED <<chunkVars, embeddings, db, retriever, callVars, raised>>

\* building the pipeline raises; the cell stops
LlmChainCellRaises ==
    /\ spc = "model"
    /\ spc' = "failed"
    /\ raised' = "llm_chain"
    /\ UNCHANGED <<chunkVars, embeddings, db, retriever, callVars>>

\* retriever = db.as_retriever(); rag_chain = {"context": retriever, ...} | llm_chain
RagChainCell ==
    /\ spc = "chain"
    /\ retriever' = [search_type |-> "similarity", search_kwargs |-> <<>>]
    /\ spc' = "rag_chain"
    /\ UNCHANGED <<chunkVars, embeddings, db, callVars, raised>>

\* llm_chain.invoke({"context": "", "question": question}): the model answers
\* without context; the text is shown and bound to no name
LlmChainInvokeCell ==
    /\ spc = "rag_chain"
    /\ spc' = "ready"
    /\ UNCHANGED <<chunkVars, embeddings, db, retriever, callVars, raised>>

\* llm_chain.invoke raises (the model call fails); nothing is returned and
\* the cell stops
LlmChainInvokeCellRaises ==
    /\ spc = "rag_chain"
    /\ spc' = "failed"
    /\ raised' = "llm_chain.invoke"
    /\ UNCHANGED <<chunkVars, embeddings, db, retriever, callVars>>

\* rag_chain.invoke(question): RunnableParallel starts both branches
Invoke ==
    /\ spc = "ready"
    /\ apc \in {"idle", "raised"}
    /\ raised' = None
    /\ \E q \in Questions : question' = q
    /\ apc' = "map"
    /\ ctx_branch' = "start"
    /\ q_branch' = "start"
    /\ qvec' = NoVector
    /\ hits' = <<>>
    /\ passed' = None
    /\ prompt' = NoPrompt
    /\ generated' = NoText
    /\ answer' = NoText
    /\ stages' = <<>>
    /\ UNCHANGED <<chunkVars, buildVars, ncalls>>

\* branch "context", first half: the retriever embeds the question
EmbedQuestion ==
    /\ apc = "map"
    /\ ctx_branch = "start"
    /\ qvec' = EmbedQuery(question)
    /\ ctx_branch' = "embedded"
    /\ stages' = Append(stages, "embed")
    /\ UNCHANGED <<chunkVars, buildVars, apc, question, q_branch, hits, passed,
                   prompt, generated, answer, ncalls, raised>>

\* branch "context", first half: embed_query raises (the model cannot run);
\* RunnableParallel re-raises it and rag_chain.invoke ends with the exception
EmbedQuestionRaises ==
    /\ apc = "map"
    /\ ctx_branch = "start"
    /\ ctx_branch' = "raised"
    /\ apc' = "raised"
    /\ raised' = "embed"
    /\ stages' = Append(stages, "embed")
    /\ UNCHANGED <<chunkVars, buildVars, question, q_branch, qvec, hits, passed,
                   prompt, generated, answer, ncalls>>

\* an index search that also stores the query vector
QueryIndexCaching ==
    /\ apc = "map"
    /\ ctx_branch = "embedded"
    /\ \E order \in TieOrders(db.vectors) :
          hits' = SimilaritySearchWithScore(db, qvec, EffectiveK(retriever), order)
    /\ db' = [state |-> "ok", vectors |-> Append(db.vectors, qvec),
              index_to_docstore_id |-> Append(db.index_to_docstore_id, 0)]
    /\ ctx_branch' = "done"
    /\ stages' = Append(stages, "query")
    /\ UNCHANGED <<chunkVars, embeddings, retriever, spc, apc,
                   question, q_branch, qvec, passed, prompt, generated, answer, ncalls, raised>>

\* branch "context", second half: the search raises; RunnableParallel
\* re-raises it and rag_chain.invoke ends with the exception
QueryIndexRaises ==
    /\ apc = "map"
    /\ ctx_branch = "embedded"
    /\ ctx_branch' = "raised"
    /\ apc' = "raised"
    /\ raised' = "query"
    /\ stages' = Append(stages, "query")
    /\ UNCHANGED <<chunkVars, buildVars, question, q_branch, qvec, hits, passed,
                   prompt, generated, answer, ncalls>>

\* branch "context", second half: the retriever searches the index
QueryIndex ==
    /\ apc = "map"
    /\ ctx_branch = "embedded"
    /\ \E order \in TieOrders(db.vectors) :
          hits' = SimilaritySearchWithScore(db, qvec, EffectiveK(retriever), order)
    /\ ctx_branch' = "done"
    /\ stages' = Append(stages, "query")
    /\ UNCHANGED <<chunkVars, buildVars, apc, question, q_branch, qvec, passed,
                   prompt, generated, answer, ncalls, raised>>

\* branch "question": RunnablePassthrough hands the input on
Passthrough ==
    /\ apc = "map"
    /\ q_branch = "start"
    /\ passed' = question
    /\ q_branch' = "done"
    /\ UNCHANGED <<chunkVars, buildVars, apc, question, ctx_branch, qvec, hits,
                   prompt, generated, answer, stages, ncalls, raised>>

\* a map that waits for the "question" branch only
MapDoneEager == q_branch = "done"

\* RunnableParallel returns once every branch has returned

MapDone == ctx_branch = "done" /\ q_branch = "done"

\* prompt: the template is filled with the map's output
FormatPrompt ==
    /\ apc = "map"
    /\ MapDone
    /\ prompt' = [context |-> DocsOf(hits), question |-> passed]
    /\ apc' = "prompt"
    /\ UNCHANGED <<chunkVars, buildVars, question, ctx_branch, q_branch, qvec, hits,
                   passed, generated, answer, stages, ncalls, raised>>

\* llm: one completion of the prompt; do_sample=True draws it at random
Generate ==
    /\ apc = "prompt"
    /\ \E s \in (IF DoSample THEN Samples ELSE {"greedy"}) :
          generated' = [of |-> prompt, sample |-> s]
    /\ apc' = "generated"
    /\ stages' = Append(stages, "generate")
    /\ UNCHANGED <<chunkVars, buildVars, question, ctx_branch, q_branch, qvec, hits,
                   passed, prompt, answer, ncalls, raised>>

\* a Generator that answers with a canned text when the model fails
GenerateFallsBack ==
    /\ apc = "prompt"
    /\ generated' = [of |-> NoPrompt, sample |-> "fallback"]
    /\ answer' = generated'
    /\ apc' = "idle"
    /\ raised' = "generate"
    /\ stages' = Append(stages, "generate")
    /\ UNCHANGED <<chunkVars, buildVars, question, ctx_branch, q_branch, qvec, hits,
                   passed, prompt, ncalls>>

\* llm: the model call raises (e.g. out of memory); no step of the chain
\* catches it and rag_chain.invoke ends with the exception
GenerateRaises ==
    /\ apc = "prompt"
    /\ apc' = "raised"
    /\ raised' = "generate"
    /\ stages' = Append(stages, "generate")
    /\ UNCHANGED <<chunkVars, buildVars, question, ctx_branch, q_branch, qvec, hits,
                   passed, prompt, generated, answer, ncalls>>

\* StrOutputParser, then rag_chain.invoke returns
Return ==
    /\ apc = "generated"
    /\ answer' = generated
    /\ apc' = "idle"
    /\ stages' = Append(stages, "return")
    /\ ncalls' = IF ncalls < MaxCalls THEN ncalls + 1 ELSE ncalls
    /\ UNCHANGED <<chunkVars, buildVars, question, ctx_branch, q_branch, qvec, hits,
                   passed, prompt, generated, raised>>

Next ==
    \/ LoadCell
    \/ LoadCellRaises
    \/ SplitDocumentsCell
    \/ FromDocumentsCell
    \/ FromDocumentsCellRaises
    \/ AsRetrieverCell
    \/ LoadModelCell
    \/ LoadModelCellRaises
    \/ LlmChainCell
    \/ LlmChainCellRaises
    \/ RagChainCell
    \/ LlmChainInvokeCell
    \/ LlmChainInvokeCellRaises
    \/ Invoke
    \/ EmbedQuestion
    \/ EmbedQuestionRaises
    \/ QueryIndex
    \/ QueryIndexRaises
    \/ Passthrough
    \/ FormatPrompt
    \/ Generate
    \/ GenerateRaises
    \/ Return

Spec == Init /\ [][Next]_vars

----------------------------------------------------------------------------
(* Claims about the Chunker, checked under SpecChunk *)

\* ceil(a / b) for b > 0
CeilDiv(a, b) == -((-a) \div b)

TheText == docs[1]
Contents == [j \in 1..Len(chunked_docs) |-> chunked_docs[j].page_content]
SplitOne == cpc = "split" /\ Len(docs) = 1

\* C1: a Document of length L is cut into exactly ceil((L-o)/(m-o)) Segments;
\* stated for the Documents longer than one chunk, which need several windows
\* (stated as claimed; the splitter does not do this)
C1_SegmentCount ==
    (SplitOne /\ Len(TheText) > chunk_size) =>
        Len(chunked_docs) =
            CeilDiv(Len(TheText) - chunk_overlap, chunk_size - chunk_overlap)

NoLongNewlineRun(text) ==
    \A i \in 1..(Len(text) - 3) : \E j \in 0..3 : text[i + j] # "\n"

WellFormed(text) ==
    /\ text # <<>>
    /\ text[1] \notin Whitespace
    /\ text[Len(text)] \notin Whitespace
    /\ NoLongNewlineRun(text)

\* C2 as claimed: a Document shorter than the maximum chunk length gives exactly
\* one Segment, equal to the whole Document
C2_ShortDocumentWhole ==
    (SplitOne /\ Len(TheText) < chunk_size) => Contents = <<TheText>>

\* C2 amended: a Document shorter than the maximum chunk length gives at most
\* one Segment; it gives exactly one, equal to the whole Document, when the
\* Document is not empty, neither starts nor ends with whitespace and holds no
\* run of four newlines; an empty or all-whitespace Document gives no Segment
C2_ShortDocumentAmended ==
    (SplitOne /\ Len(TheText) < chunk_size) =>
        /\ Len(chunked_docs) <= 1
        /\ WellFormed(TheText) => Contents = <<TheText>>
        /\ (\A i \in 1..Len(TheText) : TheText[i] \in Whitespace) => chunked_docs = <<>>
        /\ \A j \in 1..Len(chunked_docs) : chunked_docs[j].source = 1

\* C2 witness: a Document no longer than the overlap came out as one whole Segment
C2_Witness ==
    /\ SplitOne
    /\ Len(TheText) >= 1
    /\ Len(TheText) <= chunk_overlap
    /\ Contents = <<TheText>>

\* the window the claim gives Segment i (counted from 1 here)
Window(text, i, m, o) ==
    SubSeq(text, (i - 1) * (m - o) + 1,
           IF (i - 1) * (m - o) + m < Len(text) THEN (i - 1) * (m - o) + m ELSE Len(text))

\* C3: Segment i is the window starting at offset i*(m-o); all but the last have
\* length m, the last has length 1..m; 1000 characters at 512/30 give 3 Segments
\* (stated as claimed; the splitter does not do this)
C3_FixedWindows ==
    SplitOne =>
        /\ \A i \in 1..Len(Contents) :
              /\ Contents[i] = Window(TheText, i, chunk_size, chunk_overlap)
              /\ Len(Contents[i]) >= 1
              /\ Len(Contents[i]) <= chunk_size
              /\ i < Len(Contents) => Len(Contents[i]) = chunk_size
        /\ (TheText = ScenarioText /\ chunk_size = ChunkSize
                /\ chunk_overlap = ChunkOverlap)
              => Len(Contents) = 3

\* a Segment without its first o characters, the part its predecessor lacks
DropFirst(seg, o) == SubSeq(seg, o + 1, Len(seg))

RECURSIVE Reassemble(_, _, _)
\* Segment 1 whole, then every later Segment without its first o characters
Reassemble(segs, i, o) ==
    IF i > Len(segs) THEN <<>>
    ELSE (IF i = 1 THEN segs[1] ELSE DropFirst(segs[i], o))
             \o Reassemble(segs, i + 1, o)

\* C12: for a non-empty Document and o < m the Segments cover the Document:
\* every non-first Segment holds something its predecessor does not (it is
\* longer than the overlap), and the first Segment followed by the later ones
\* without their first o characters is the Document's text, so that every
\* character position lies in a Segment
\* (stated as claimed; the splitter does not do this)
C12_ImplicitCoverage ==
    (SplitOne /\ TheText # <<>>) =>
        /\ Len(Contents) >= 1
        /\ \A i \in 2..Len(Contents) : Len(Contents[i]) > chunk_overlap
        /\ Reassemble(Contents, 1, chunk_overlap) = TheText

----------------------------------------------------------------------------
(* Claims about the Vector Index and rag_chain.invoke, checked under Spec *)

\* the retriever's search of the current invocation has returned
Searched == ctx_branch = "done"
\* an invocation has returned and no other has begun
Returned == apc = "idle" /\ ncalls > 0

NEntries == Len(embeddings)
DistanceTo(i) == L2Sqr(embeddings[i], qvec)
ReturnedSegments == {hits[p].segment : p \in 1..Len(hits)}
Smaller(a, b) == IF a < b THEN a ELSE b

\* segs is a result the index can give for query vector q and k: min(k, N)
\* distinct entries, nearer first, none left out that is nearer than one listed
IsTopK(segs, vectors, q, k) ==
    /\ Len(segs) = Smaller(k, Len(vectors))
    /\ \A p \in 1..Len(segs) : segs[p] \in 1..Len(vectors)
    /\ \A p \in 1..Len(segs), r \in 1..Len(segs) :
          p < r => /\ segs[p] # segs[r]
                   /\ L2Sqr(vectors[segs[p]], q) <= L2Sqr(vectors[segs[r]], q)
    /\ \A i \in (1..Len(vectors)) \ {segs[p] : p \in 1..Len(segs)} :
          \A p \in 1..Len(segs) :
              L2Sqr(vectors[i], q) >= L2Sqr(vectors[segs[p]], q)

NonDecreasing ==
    \A p \in 1..Len(hits), r \in 1..Len(hits) :
        p < r => hits[p].distance <= hits[r].distance

\* C4 as claimed: query returns k Segments, the closest ones, by non-decreasing
\* distance, and of two Segments at the same distance the one inserted earlier
\* comes first and is the one kept
C4_TopKInsertionOrder ==
    Searched =>
        /\ Len(hits) = RetrieverK
        /\ NonDecreasing
        /\ \A p \in 1..Len(hits), r \in 1..Len(hits) :
              (p < r /\ hits[p].distance = hits[r].distance)
                  => hits[p].segment < hits[r].segment
        /\ \A i \in (1..NEntries) \ ReturnedSegments : \A p \in 1..Len(hits) :
              \/ DistanceTo(i) > hits[p].distance
              \/ DistanceTo(i) = hits[p].distance /\ i > hits[p].segment

\* C4 amended: query returns min(k, N) distinct Segments, each with its distance
\* to the query vector, by non-decreasing distance, and no Segment left out is
\* closer than one returned; the order among equal distances is not fixed
C4_TopKAmended ==
    Searched =>
        /\ Len(hits) = Smaller(RetrieverK, NEntries)
        /\ \A p \in 1..Len(hits) :
              /\ hits[p].segment \in 1..NEntries
              /\ hits[p].distance = DistanceTo(hits[p].segment)
        /\ Cardinality(ReturnedSegments) = Len(hits)
        /\ NonDecreasing
        /\ \A i \in (1..NEntries) \ ReturnedSegments : \A p \in 1..Len(hits) :
              DistanceTo(i) >= hits[p].distance

\* C4 witness: more entries than k, results at different distances, and a
\* Segment left out at the distance of the last one returned
C4_Witness ==
    /\ Searched
    /\ NEntries > RetrieverK
    /\ Len(hits) = RetrieverK
    /\ hits[1].distance < hits[Len(hits)].distance
    /\ \E i \in (1..NEntries) \ ReturnedSegments :
          DistanceTo(i) = hits[Len(hits)].distance

SameVector == {i \in 1..NEntries : embeddings[i] = qvec}

\* C5 as claimed: querying with the vector of an inserted pair returns that
\* pair's Segment at distance 0, for every inserted pair with that vector
C5_RoundTripEveryPair ==
    Searched =>
        \A i \in SameVector :
            \E p \in 1..Len(hits) : hits[p].segment = i /\ hits[p].distance = 0

\* C5 amended: when c inserted pairs carry the query vector, the first min(k, c)
\* results are Segments of such pairs at distance 0; every such pair's Segment
\* is returned when c <= k
C5_RoundTripAmended ==
    Searched =>
        LET c == Cardinality(SameVector)
        IN  /\ Len(hits) >= Smaller(RetrieverK, c)
            /\ \A p \in 1..Smaller(RetrieverK, c) :
                  hits[p].segment \in SameVector /\ hits[p].distance = 0
            /\ c <= RetrieverK => SameVector \subseteq ReturnedSegments

\* C5 witness: several inserted pairs carry the query vector, others do not,
\* and every one of the former was returned
C5_Witness ==
    /\ Searched
    /\ Cardinality(SameVector) >= 2
    /\ Cardinality(SameVector) < NEntries
    /\ SameVector \subseteq ReturnedSegments

StageOrder == <<"embed", "query", "generate", "return">>

\* C7: the stages of an invocation start in the order embed, query, generate,
\* return, each once and after the one before it, and the invocation returns
\* the Generator's output
C7_StageOrder ==
    /\ Len(stages) <= Len(StageOrder)
    /\ stages = SubSeq(StageOrder, 1, Len(stages))
    /\ apc = "prompt" => stages = <<"embed", "query">>
    /\ apc = "generated" => stages = <<"embed", "query", "generate">>
    /\ Returned => (stages = StageOrder /\ answer = generated /\ answer # NoText)

\* C7 witness: a second invocation has returned after running all four stages
C7_Witness ==
    /\ Returned
    /\ ncalls >= 2
    /\ stages = StageOrder

\* C8: the Generator's input is the question unchanged and, as context, the
\* result of the index query for the question's embedding with k = 4, in
\* retrieval order, with the retriever rag_chain was built from
C8_GeneratorInput ==
    (apc \in {"prompt", "generated"} \/ Returned) =>
        /\ prompt.question = question
        /\ prompt.context = DocsOf(hits)
        /\ IsTopK(prompt.context, db.vectors, EmbedQuery(question), RetrieverK)
        /\ apc # "prompt" => generated.of = prompt

\* C8 witness: the Generator ran on 4 Segments retrieved from a larger index by
\* the retriever that has no search_kwargs
C8_Witness ==
    /\ apc = "generated"
    /\ retriever.search_kwargs = <<>>
    /\ NEntries > RetrieverK
    /\ Len(prompt.context) = RetrieverK
    /\ generated.of.question = question

\* C10: invocations leave the index as built, holding exactly the inserted
\* pairs, and what an invocation hands to the Generator and returns is a
\* result of its own question on the index as built, whatever was invoked
\* before
C10_IndexUnchangedStateless ==
    /\ spc \in {"built", "retriever", "model", "chain", "rag_chain", "ready"} =>
          /\ db.state = "ok"
          /\ db.vectors = embeddings
          /\ db.vectors = EmbedDocuments(Contents)
          /\ db.index_to_docstore_id = [i \in 1..NEntries |-> i]
    /\ Returned =>
          /\ answer.of.question = question
          /\ IsTopK(answer.of.context, FromDocuments(embeddings).vectors,
                    EmbedQuery(question), RetrieverK)
          /\ answer.sample \in Samples

\* C10 witness: the index is as built after MaxCalls invocations
C10_Witness ==
    /\ Returned
    /\ ncalls = MaxCalls
    /\ db.vectors = embeddings
    /\ NEntries > 1

\* the stages of an invocation up to and including the one that raised
StagesUpTo(stage) ==
    CASE stage = "embed" -> <<"embed">>
      [] stage = "query" -> <<"embed", "query">>
      [] stage = "generate" -> <<"embed", "query", "generate">>
      [] OTHER -> <<>>

\* what a failure leaves behind: no answer, and nothing of what comes after
\* the failed step
FailedFatally ==
    /\ answer = NoText
    /\ raised \in {"load", "embed_documents", "from_documents", "load_model",
                   "llm_chain", "llm_chain.invoke"} =>
          /\ spc = "failed"
          /\ apc = "idle"
          /\ question = None
          /\ stages = <<>>
    /\ raised = "load" => (docs = <<>> /\ chunked_docs = <<>>)
    /\ raised \in {"load", "embed_documents", "from_documents"} =>
          /\ embeddings = <<>>
          /\ db = NoIndex
          /\ retriever = NoRetriever
    /\ raised = "from_documents" => chunked_docs = <<>>
    /\ raised \in {"load_model", "llm_chain", "llm_chain.invoke"} => db.state = "ok"
    /\ raised = "llm_chain.invoke" =>
          retriever = [search_type |-> "similarity", search_kwargs |-> <<>>]
    /\ raised \in {"load_model", "llm_chain"} =>
          retriever = [search_type |-> "similarity", search_kwargs |-> [k |-> RetrieverK]]
    /\ raised \in {"embed", "query", "generate"} =>
          /\ spc = "ready"
          /\ apc = "raised"
          /\ stages = StagesUpTo(raised)
          /\ generated = NoText
    /\ raised \in {"embed", "query"} => (hits = <<>> /\ prompt = NoPrompt)

\* C11: a failure in a stage (fetch, embedding of the Segments, index build,
\* model and chain set-up, the call without context, embedding of the
\* question, index query, generation) is fatal and reaches the caller: the
\* failed stage started once and is not run again, no later stage of that run
\* is started, no answer text is returned; after a failed set-up cell nothing
\* runs, and the only step after a failed invocation is a new invocation by
\* the caller
C11_FailureFatal ==
    /\ [](raised # None => FailedFatally)
    /\ [][raised # None => (raised' = None /\ apc' = "map" /\ stages' = <<>>)]_vars

\* C11 witness: the Generator raised after the question was embedded and the
\* index queried, and the invocation ended without an answer
C11_Witness ==
    /\ raised = "generate"
    /\ apc = "raised"
    /\ stages = <<"embed", "query", "generate">>
    /\ hits # <<>>
    /\ answer = NoText

====
